---- MODULE Spec2Model ----
(***************************************************************************)
(* Court session and upload-permission coordinator (useCourtSession) with  *)
(* the three tables it writes (session_logs, permission_requests,          *)
(* case_diary) and the realtime change feed it subscribes to.              *)
(*                                                                         *)
(* One Coordinator is one mounted useCourtSession(caseId) hook.  Every     *)
(* asynchronous operation of the hook is a task that advances one await at *)
(* a time; feed events are queued per Coordinator and handled one by one.  *)
(* Time is counted in half minutes, so that Math.round(ms / 60000) has     *)
(* both of its rounding cases.                                             *)
(***************************************************************************)
EXTENDS Integers, Sequences, FiniteSets, TLC

\* ---------------------------------------------------------------- bounds
MaxSessions == 1    \* session_logs rows ever inserted
MaxRequests == 1    \* permission_requests rows ever inserted
MaxClock == 1       \* last value of the clock, where the clock runs
MaxFailures == 1    \* store calls that fail in one behaviour, where any does
MaxTasks == 1       \* operations in flight on one Coordinator
MaxFeed == 2        \* undelivered feed events per Coordinator
MinFeed == 1        \* the same, where a write waits for the last event
MaxEnds == 1        \* endSession calls that reach the store
MaxNotes == 1       \* updateNotes calls that reach the store
MaxResponds == 1    \* respondToPermission calls that reach the store
MoreSessions == 2   \* session_logs rows, where sessions follow each other
MoreRequests == 2   \* permission_requests rows, where requests are repeated
MoreEnds == 2       \* endSession calls, where a session is ended again
MoreTasks == 2      \* operations in flight, where operations overlap
MaxHandled == 1     \* grants and denials made on the judiciary dashboard
MaxSeals == 1       \* sealEvidence calls that reach the diary
MaxRefreshes == 1   \* calls of refreshSession, and of refreshPermissions
MaxMissed == 1      \* counted renewals of a subscription that miss events

Limits(s, r, k, f, t, q, e, n, p) ==
  [sessions |-> s, requests |-> r, clock |-> k, failures |-> f, tasks |-> t,
   feed |-> q, endSession |-> e, updateNotes |-> n, respondToPermission |-> p,
   handlePermission |-> 0, sealEvidence |-> 0, refreshSession |-> 0,
   refreshPermissions |-> 0, ResubscribeMissing |-> 0]

\* the same with d calls of the dashboard's handlers, v of sealEvidence, r of
\* each of the two refresh functions, and m counted renewals of a subscription
\* at which events are missed
Open(lim, d, v, r, m) ==
  [lim EXCEPT !.handlePermission = d, !.sealEvidence = v,
              !.refreshSession = r, !.refreshPermissions = r,
              !.ResubscribeMissing = m]

\* the operations whose calls are counted, and the renewals of a subscription
\* at which events are missed
Budgeted == {"endSession", "updateNotes", "respondToPermission",
             "handlePermission", "sealEvidence", "refreshSession",
             "refreshPermissions", "ResubscribeMissing"}

\* ------------------------------------------------------ program constants
UnitsPerMinute == 2 \* clock units in the 60000 ms of one minute

CaseId == "case"
NoProfile == "none"
Unmounted == "unmounted"
NoNotes == "<null>"
NoTime == -1

Coordinators == {"A", "B"}
\* the notes a judge types
Notes == {"n"}
\* the argument of endSession: notes, the empty string, or none
EndNotes == Notes \cup {"", NoNotes}
\* the positions of the operations in flight, and the ids of request rows
TaskIds == 1..MaxTasks
Slots == 1..MoreTasks
RequestIds == 1..MoreRequests
SessionIds == 1..MoreSessions

role_category(p) ==
  CASE p = "j1" -> "judiciary"
    [] p = "j2" -> "judiciary"
    [] p = "p1" -> "legal_practitioner"
    [] OTHER -> "none"

\* ------------------------------------------------------------------ rows
CourtSession(id, judge, st, sa, ea, nt) ==
  [id |-> id, case_id |-> CaseId, judge_id |-> judge, status |-> st,
   started_at |-> sa, ended_at |-> ea, notes |-> nt]

NoSession == [id |-> 0, case_id |-> CaseId, judge_id |-> NoProfile,
              status |-> "none", started_at |-> 0, ended_at |-> NoTime,
              notes |-> NoNotes]

\* a session known by its id alone, as fetchPermissions(sessionId) receives it
SessionRef(id) == [NoSession EXCEPT !.id = id]

PermissionRequest(id, sid, req, st, ra, rb) ==
  [id |-> id, session_id |-> sid, case_id |-> CaseId, requester_id |-> req,
   status |-> st, requested_at |-> ra, responded_by |-> rb]

NoPermission == [id |-> 0, session_id |-> 0, case_id |-> CaseId,
                 requester_id |-> NoProfile, status |-> "none",
                 requested_at |-> 0, responded_by |-> NoProfile]

DiaryEntry(action, actor, sid, dur, nt) ==
  [case_id |-> CaseId, action |-> action, actor_id |-> actor,
   session_id |-> sid, duration_minutes |-> dur, notes_summary |-> nt]

SessionEvent(type, row) ==
  [table |-> "session_logs", eventType |-> type, session |-> row,
   request |-> NoPermission]

PermissionEvent(type, row) ==
  [table |-> "permission_requests", eventType |-> type, session |-> NoSession,
   request |-> row]

\* an operation in flight: the await it is suspended at (pc), the operation
\* of the hook that runs it (op), and the values its closure holds.  For
\* endSession rid is the number of request rows when it was called, and
\* expired tells whether its bulk expire succeeded, logged whether the insert
\* into the diary did; they are only observed.
\* So are rank, the number of reloads of the Coordinator in flight that were
\* issued before the reload of this task, and overtaken, which tells that a
\* reload issued after the reload of this task has already set its result
Task(op, pc, sess, t, nt, rid, grant) ==
  [op |-> op, pc |-> pc, session |-> sess, t |-> t, notes |-> nt, rid |-> rid,
   grant |-> grant, data |-> <<>>, expired |-> TRUE, logged |-> TRUE,
   rank |-> 0, overtaken |-> FALSE]

VARIABLES
  session_logs,        \* the table, a sequence of rows; a row's id is its index
  permission_requests, \* the table, a sequence of rows; a row's id is its index
  case_diary,          \* the table, a sequence of entries
  now,                 \* the clock
  failures,            \* store calls that have failed so far
  calls,               \* operation -> calls of it that reached the store
  limits,              \* the bounds of the specification, never changed
  profile,             \* Coordinator -> profile id of its user
  activeSession,       \* Coordinator -> useState activeSession
  permissionRequests,  \* Coordinator -> useState permissionRequests
  myPermission,        \* Coordinator -> useState myPermission
  tasks,               \* Coordinator -> operations in flight
  feed,                \* Coordinator -> undelivered change events
  channel              \* Coordinator -> activeSession?.id as the handlers of
                       \* its subscription hold it (0 for none)

store == <<session_logs, permission_requests, case_diary>>
local == <<activeSession, permissionRequests, myPermission>>
\* what no callback of the hook changes: the bounds, the user, and the closure
\* of the subscription, which only the subscription effect renews
setup == <<limits, profile, channel>>
vars == <<session_logs, permission_requests, case_diary, now, failures, calls,
          limits, profile, activeSession, permissionRequests, myPermission,
          tasks, feed, channel>>

\* ---------------------------------------------------------------- helpers
Range(s) == {s[i] : i \in DOMAIN s}

RemoveAt(s, i) == [j \in 1..(Len(s) - 1) |-> IF j < i THEN s[j] ELSE s[j + 1]]

\* Math.round((t - started) / 60000): the nearest minute, halves upwards
DurationMinutes(t, started) ==
  (2 * (t - started) + UnitsPerMinute) \div (2 * UnitsPerMinute)

isJudge(c) == role_category(profile[c]) = "judiciary"

canUpload(c) == myPermission[c].status = "granted" \/ isJudge(c)

\* the views of a case: the role gate of the upload tab, and the condition
\* under which each view renders the Upload Workspace
tabCanUpload(c) ==
  \/ role_category(profile[c]) = "judiciary"
  \/ role_category(profile[c]) = "legal_practitioner"

\* the view of a case that consults the hook
UploadWorkspace_CaseDetails(c) ==
  /\ tabCanUpload(c) /\ profile[c] # Unmounted
  /\ (canUpload(c) \/ isJudge(c))

\* the view of a case that renders the workspace on the role alone
UploadWorkspace_Sections(c) == tabCanUpload(c) /\ profile[c] # Unmounted

\* a || b on notes: the empty string and null are falsy
OrNotes(a, b) == IF a = NoNotes \/ a = "" THEN b ELSE a

\* the sequences that list the rows of S by requested_at, newest first
ByRequestedAtDesc(S) ==
  {q \in [1..Cardinality(S) -> S] :
     /\ \A i, j \in 1..Cardinality(S) : i # j => q[i] # q[j]
     /\ \A i, j \in 1..Cardinality(S) :
          i < j => q[i].requested_at >= q[j].requested_at}

\* Array.prototype.find: the first element satisfying the test, or none
FindMine(list, p) ==
  LET hits == {i \in DOMAIN list :
                 /\ list[i].requester_id = p
                 /\ list[i].status \in {"pending", "granted"}}
  IN IF hits = {} THEN NoPermission
     ELSE list[CHOOSE i \in hits : \A j \in hits : i <= j]

FindExisting(list, p, sid) ==
  LET hits == {i \in DOMAIN list :
                 /\ list[i].requester_id = p
                 /\ list[i].session_id = sid
                 /\ list[i].status \in {"pending", "granted"}}
  IN IF hits = {} THEN NoPermission
     ELSE list[CHOOSE i \in hits : \A j \in hits : i <= j]

\* every subscribed Coordinator receives the events, in order
Mounted(c) == profile[c] # Unmounted

Publish(events) ==
  [c \in Coordinators |-> IF Mounted(c) THEN feed[c] \o events ELSE feed[c]]

Room(k) == \A c \in Coordinators : Len(feed[c]) + k <= limits.feed

Spawn(c, tk) == [tasks EXCEPT ![c] = Append(@, tk)]
Finish(c, i) == [tasks EXCEPT ![c] = RemoveAt(@, i)]
Continue(c, i, tk) == [tasks EXCEPT ![c][i] = tk]

\* the calls of fetchPermissions of Coordinator c that are in flight
Reloading(c) ==
  {i \in DOMAIN tasks[c] : tasks[c][i].pc \in {"fp_query", "fp_profiles"}}

\* task tk calls fetchPermissions: its reload is issued after those in flight
Issue(c, tk) == [tk EXCEPT !.pc = "fp_query", !.rank = Cardinality(Reloading(c))]

\* the reload of task i ends, having set its result or not: the reloads
\* issued after it move up, and those issued before it are overtaken if it
\* has set its result
FinishReload(c, i, set) ==
  [tasks EXCEPT ![c] =
     RemoveAt([j \in DOMAIN @ |->
                 IF j \in Reloading(c) /\ @[j].rank > @[i].rank
                   THEN [@[j] EXCEPT !.rank = @ - 1]
                 ELSE IF j \in Reloading(c) /\ @[j].rank < @[i].rank /\ set
                   THEN [@[j] EXCEPT !.overtaken = TRUE]
                 ELSE @[j]], i)]

\* what the caller of operation op receives when its task leaves pc with
\* outcome ok; "" while the operation goes on
returns(op, pc, ok) ==
  CASE pc = "ss_insert" -> IF ok THEN "" ELSE "null"
    [] pc = "ss_diary" -> ""
    [] pc = "ss_set" -> "session"
    [] pc = "es_update" -> IF ok THEN "" ELSE "false"
    [] pc = "es_expire" -> ""
    [] pc = "es_log" -> ""
    [] pc = "es_diary" -> ""
    [] pc = "es_clear" -> "true"
    [] pc = "un_update" -> IF ok THEN "" ELSE "false"
    [] pc = "un_set" -> "true"
    [] pc = "rp_insert" -> IF ok THEN "" ELSE "null"
    [] pc = "rt_update" -> IF ok THEN "" ELSE "false"
    [] pc = "fp_query" /\ ok -> ""
    [] pc \in {"fp_query", "fp_profiles"} ->
         IF op = "requestPermission" THEN "request"
         ELSE IF op = "respondToPermission" THEN "true" ELSE ""
    [] OTHER -> ""

\* a store call may fail while the failure budget lasts
Outcomes == {TRUE} \cup (IF failures < limits.failures THEN {FALSE} ELSE {})

\* the await pc of task i of Coordinator c is answered, with outcome ok
Answer(c, i, pc, ok) ==
  /\ i \in DOMAIN tasks[c]
  /\ tasks[c][i].pc = pc
  /\ ok \in Outcomes
  /\ failures' = IF ok THEN failures ELSE failures + 1

InFlight(pc) ==
  Cardinality({<<c, i>> \in Coordinators \X (1..limits.tasks) :
                 i <= Len(tasks[c]) /\ tasks[c][i].pc = pc})

\* ------------------------------------------------------------------- Init
\* the hooks are mounted on an empty store; each runs its loadData effect
InitWith(profiles, lim) ==
  /\ session_logs = <<>>
  /\ permission_requests = <<>>
  /\ case_diary = <<>>
  /\ now = 0
  /\ failures = 0
  /\ calls = [op \in Budgeted |-> 0]
  /\ limits = lim
  /\ profile = profiles
  /\ activeSession = [c \in Coordinators |-> NoSession]
  /\ permissionRequests = [c \in Coordinators |-> <<>>]
  /\ myPermission = [c \in Coordinators |-> NoPermission]
  /\ tasks = [c \in Coordinators |->
                IF profiles[c] # Unmounted
                  THEN <<Task("loadData", "fs_query", NoSession, 0, NoNotes, 0,
                              FALSE)>>
                  ELSE <<>>]
  /\ feed = [c \in Coordinators |-> <<>>]
  /\ channel = [c \in Coordinators |-> 0]

\* a judge and a practitioner on the case
JudgeAndPractitioner == [c \in Coordinators |-> IF c = "A" THEN "j1" ELSE "p1"]
\* two judges on the case
TwoJudges == [c \in Coordinators |-> IF c = "A" THEN "j1" ELSE "j2"]
\* one judge alone
OneJudge == [c \in Coordinators |-> IF c = "A" THEN "j1" ELSE Unmounted]

Init ==
  InitWith(JudgeAndPractitioner,
           Limits(MaxSessions, MaxRequests, 0, 0, MaxTasks, MinFeed, MaxEnds,
                  MaxNotes, MaxResponds))

\* the same, and two events may be on their way to a Coordinator
InitQueued ==
  InitWith(JudgeAndPractitioner,
           Limits(MaxSessions, MaxRequests, 0, 0, MaxTasks, MaxFeed, MaxEnds,
                  MaxNotes, MaxResponds))

\* store calls may fail
InitFail ==
  InitWith(JudgeAndPractitioner,
           Limits(MaxSessions, MaxRequests, 0, MaxFailures, MaxTasks, MinFeed,
                  MaxEnds, MaxNotes, MaxResponds))

\* evidence is sealed as well
InitSealed ==
  InitWith(JudgeAndPractitioner,
           Open(Limits(MaxSessions, MaxRequests, 0, 0, MaxTasks, MinFeed,
                       MaxEnds, MaxNotes, MaxResponds), 0, MaxSeals, 0, 0))

\* one judge alone, and the clock runs
InitTimed ==
  InitWith(OneJudge,
           Limits(MaxSessions, MaxRequests, MaxClock, 0, MaxTasks, MaxFeed,
                  MaxEnds, MaxNotes, MaxResponds))

InitSolo ==
  InitWith(OneJudge,
           Limits(MoreSessions, MaxRequests, 0, 0, MaxTasks, MaxFeed, MaxEnds,
                  MaxNotes, MaxResponds))

\* one judge alone; the renewals of the subscription at which events are
\* missed are counted
InitRedelivered ==
  InitWith(OneJudge,
           Open(Limits(MoreSessions, MaxRequests, 0, 0, MaxTasks, MaxFeed,
                       MaxEnds, MaxNotes, MaxResponds), 0, 0, 0, MaxMissed))

\* one judge alone, whose operations may overlap
InitTwice ==
  InitWith(OneJudge,
           Limits(MoreSessions, MaxRequests, 0, 0, MoreTasks, MaxFeed, MaxEnds,
                  MaxNotes, MaxResponds))

\* one judge alone, whose store calls may fail and whose views reload
InitRefreshed ==
  InitWith(OneJudge,
           Open(Limits(MaxSessions, MaxRequests, 0, MaxFailures, MaxTasks,
                       MaxFeed, MaxEnds, MaxNotes, MaxResponds),
                0, 0, MaxRefreshes, 0))

InitJudges ==
  InitWith(TwoJudges,
           Limits(MoreSessions, MaxRequests, 0, 0, MaxTasks, MaxFeed,
                  MaxEnds, MaxNotes, MaxResponds))

\* two judges with one session between them, which both may end
InitTwoEnds ==
  InitWith(TwoJudges,
           Limits(MaxSessions, MaxRequests, 0, 0, MaxTasks, MaxFeed, MoreEnds,
                  MaxNotes, MaxResponds))

\* the hook of one judge is mounted on a case that has a history: up to
\* MoreSessions sessions of the case, active or ended, started at any time of
\* the clock, and up to MoreRequests requests of a practitioner for them
StoredSessions ==
  UNION {[1..n -> {"active", "ended"} \X (0..MaxClock)] : n \in 0..MoreSessions}

StoredRequests(n) ==
  UNION {[1..m -> (1..n) \X {"pending", "granted"}] : m \in 0..MoreRequests}

\* the hooks of the users are mounted on the store of sessions and requests
StoredInitFor(profiles, sessions, requests, lim) ==
  /\ session_logs = sessions
  /\ permission_requests = requests
  /\ case_diary = <<>>
  /\ now = 0
  /\ failures = 0
  /\ calls = [op \in Budgeted |-> 0]
  /\ limits = lim
  /\ profile = profiles
  /\ activeSession = [c \in Coordinators |-> NoSession]
  /\ permissionRequests = [c \in Coordinators |-> <<>>]
  /\ myPermission = [c \in Coordinators |-> NoPermission]
  /\ tasks = [c \in Coordinators |->
                IF profiles[c] # Unmounted
                  THEN <<Task("loadData", "fs_query", NoSession, 0, NoNotes, 0,
                              FALSE)>>
                  ELSE <<>>]
  /\ feed = [c \in Coordinators |-> <<>>]
  /\ channel = [c \in Coordinators |-> 0]

\* the hook of one judge is mounted on the store of sessions and requests
StoredInit(sessions, requests, lim) ==
  StoredInitFor(OneJudge, sessions, requests, lim)

InitStored ==
  \E ss \in StoredSessions : \E rs \in StoredRequests(Len(ss)) :
    StoredInit([k \in DOMAIN ss |->
                  CourtSession(k, "j1", ss[k][1], ss[k][2],
                               IF ss[k][1] = "ended" THEN ss[k][2] ELSE NoTime,
                               NoNotes)],
               [k \in DOMAIN rs |->
                  PermissionRequest(k, rs[k][1], "p1", rs[k][2], 0,
                                    IF rs[k][2] = "granted" THEN "j1"
                                    ELSE NoProfile)],
               Limits(MoreSessions, MoreRequests, 0, 0, MaxTasks, MaxFeed,
                      MaxEnds, MaxNotes, MaxResponds))

\* the judge opens the case while the session is active and a practitioner's
\* request is pending; operations of the Coordinator may overlap
InitOverlap ==
  StoredInit(<<CourtSession(1, "j1", "active", 0, NoTime, NoNotes)>>,
             <<PermissionRequest(1, 1, "p1", "pending", 0, NoProfile)>>,
             Limits(MoreSessions, MoreRequests, 0, 0, MoreTasks, MaxFeed,
                    MaxEnds, MaxNotes, MaxResponds))

\* a judge and a practitioner have the case open and have loaded it: the
\* judge's session is active and the practitioner's request for it pending.
\* Operations of a Coordinator may overlap
InitLoaded ==
  LET session == CourtSession(1, "j1", "active", 0, NoTime, NoNotes)
      request == PermissionRequest(1, 1, "p1", "pending", 0, NoProfile)
  IN /\ session_logs = <<session>>
     /\ permission_requests = <<request>>
     /\ case_diary = <<>>
     /\ now = 0
     /\ failures = 0
     /\ calls = [op \in Budgeted |-> 0]
     /\ limits = Limits(MaxSessions, MaxRequests, 0, 0, MoreTasks, MaxFeed,
                        MaxEnds, MaxNotes, MaxResponds)
     /\ profile = JudgeAndPractitioner
     /\ activeSession = [c \in Coordinators |-> session]
     /\ permissionRequests = [c \in Coordinators |-> <<request>>]
     /\ myPermission = [c \in Coordinators |->
                          FindMine(<<request>>, JudgeAndPractitioner[c])]
     /\ tasks = [c \in Coordinators |-> <<>>]
     /\ feed = [c \in Coordinators |-> <<>>]
     /\ channel = [c \in Coordinators |-> session.id]

\* a judge and a practitioner open the case while the judge's session is
\* active and nobody has asked for an upload; store calls may fail
InitAsking ==
  StoredInitFor(JudgeAndPractitioner,
                <<CourtSession(1, "j1", "active", 0, NoTime, NoNotes)>>, <<>>,
                Limits(MaxSessions, MoreRequests, 0, MaxFailures, MaxTasks,
                       MaxFeed, MaxEnds, MaxNotes, MaxResponds))

\* a judge and a practitioner open the case after a first session has ended,
\* in which the practitioner was granted an upload: there is room for a second
\* session and a second request
InitAgain ==
  StoredInitFor(JudgeAndPractitioner,
                <<CourtSession(1, "j1", "ended", 0, 0, NoNotes)>>,
                <<PermissionRequest(1, 1, "p1", "granted", 0, "j1")>>,
                Limits(MoreSessions, MoreRequests, 0, 0, MaxTasks, MinFeed,
                       MaxEnds, MaxNotes, MaxResponds))

\* a practitioner has the case open in two tabs while a session is active
TwoTabs == [c \in Coordinators |-> "p1"]

InitTabs ==
  StoredInitFor(TwoTabs,
                <<CourtSession(1, "j1", "active", 0, NoTime, NoNotes)>>, <<>>,
                Limits(MaxSessions, MoreRequests, 0, 0, MaxTasks, MaxFeed,
                       MaxEnds, MaxNotes, MaxResponds))

\* two judges have the case open, and its dashboard, while the session of the
\* first is active and a practitioner's request is pending
InitDashboard ==
  StoredInitFor(TwoJudges,
                <<CourtSession(1, "j1", "active", 0, NoTime, NoNotes)>>,
                <<PermissionRequest(1, 1, "p1", "pending", 0, NoProfile)>>,
                Open(Limits(MaxSessions, MaxRequests, 0, 0, MaxTasks, MaxFeed,
                            MaxEnds, MaxNotes, MaxResponds),
                     MaxHandled, 0, 0, 0))

\* ------------------------------------------------------------------ clock
Tick ==
  /\ now < limits.clock
  /\ now' = now + 1
  /\ UNCHANGED <<store, local, setup, failures, calls, tasks, feed>>

\* a view starts an operation of Coordinator c, which suspends in task tk
Start(c, tk) ==
  /\ Len(tasks[c]) < limits.tasks
  /\ IF tk.op \in DOMAIN calls
       THEN /\ calls[tk.op] < limits[tk.op]
            /\ calls' = [calls EXCEPT ![tk.op] = @ + 1]
       ELSE UNCHANGED calls
  /\ tasks' = Spawn(c, tk)
  /\ UNCHANGED <<store, local, setup, now, failures, feed>>

\* ----------------------------------------------------------- startSession
\* startSession() without its role check
startSessionResult_anyRole(c) ==
  IF activeSession[c].id # 0 THEN "already_active" ELSE "insert"

\* what the synchronous part of startSession() decides
startSessionResult(c) ==
  IF ~isJudge(c) \/ profile[c] = NoProfile THEN "unauthorized"
  ELSE IF activeSession[c].id # 0 THEN "already_active"
  ELSE "insert"

startSession(c) ==
  /\ Mounted(c)
  /\ IF startSessionResult(c) = "insert"
       THEN /\ Len(session_logs) + InFlight("ss_insert") < limits.sessions
            /\ Start(c, Task("startSession", "ss_insert", NoSession, now,
                             NoNotes, 0, FALSE))
       ELSE UNCHANGED vars

\* the insert into session_logs answers: on an error startSession returns null
ss_insert(c, i, ok) ==
  /\ Answer(c, i, "ss_insert", ok)
  /\ IF ok
       THEN LET data == CourtSession(Len(session_logs) + 1, profile[c],
                                     "active", tasks[c][i].t, NoTime,
                                     NoNotes)
            IN /\ Room(1)
               /\ session_logs' = Append(session_logs, data)
               /\ feed' = Publish(<<SessionEvent("INSERT", data)>>)
               /\ tasks' = Continue(c, i, [tasks[c][i] EXCEPT
                                             !.pc = "ss_diary",
                                             !.session = data])
       ELSE /\ tasks' = Finish(c, i)
            /\ UNCHANGED <<session_logs, feed>>
  /\ UNCHANGED <<permission_requests, case_diary, local, setup, now, calls>>

\* startSession giving up when the insert of SESSION_START fails
ss_diary_checked(c, i, ok) ==
  /\ Answer(c, i, "ss_diary", ok)
  /\ case_diary' =
       IF ok THEN Append(case_diary,
                         DiaryEntry("SESSION_START", profile[c],
                                    tasks[c][i].session.id, 0, NoNotes))
       ELSE case_diary
  /\ tasks' = IF ok THEN Continue(c, i, [tasks[c][i] EXCEPT !.pc = "ss_set"])
              ELSE Finish(c, i)
  /\ UNCHANGED <<session_logs, permission_requests, local, setup, now, calls,
                 feed>>

\* the store executes the insert of SESSION_START into case_diary, or fails
\* to; the answer is on its way to the hook, which does not read its error
ss_diary(c, i, ok) ==
  /\ Answer(c, i, "ss_diary", ok)
  /\ case_diary' =
       IF ok THEN Append(case_diary,
                         DiaryEntry("SESSION_START", profile[c],
                                    tasks[c][i].session.id, 0, NoNotes))
       ELSE case_diary
  /\ tasks' = Continue(c, i, [tasks[c][i] EXCEPT !.pc = "ss_set",
                                                 !.logged = ok])
  /\ UNCHANGED <<session_logs, permission_requests, local, setup, now, calls,
                 feed>>

\* startSession resumes after the diary insert: it sets the session it
\* inserted and returns it
ss_set(c, i) ==
  /\ i \in DOMAIN tasks[c]
  /\ tasks[c][i].pc = "ss_set"
  /\ activeSession' = [activeSession EXCEPT ![c] = tasks[c][i].session]
  /\ tasks' = Finish(c, i)
  /\ UNCHANGED <<store, permissionRequests, myPermission, setup, now,
                 failures, calls, feed>>

\* ------------------------------------------------------------- endSession
endSessionResult(c) ==
  IF ~isJudge(c) \/ activeSession[c].id = 0 \/ profile[c] = NoProfile
    THEN "rejected"
    ELSE "update"

endSession(c, notes) ==
  /\ Mounted(c)
  /\ IF endSessionResult(c) = "update"
       THEN Start(c, Task("endSession", "es_update", activeSession[c], now,
                          OrNotes(notes, activeSession[c].notes),
                          Len(permission_requests), FALSE))
       ELSE UNCHANGED vars

\* the update of the session row answers: on an error endSession returns false
es_update(c, i, ok) ==
  /\ Answer(c, i, "es_update", ok)
  /\ IF ok
       THEN LET id == tasks[c][i].session.id
                row == [session_logs[id] EXCEPT
                          !.status = "ended",
                          !.ended_at = tasks[c][i].t,
                          !.notes = tasks[c][i].notes]
            IN /\ Room(1)
               /\ session_logs' = [session_logs EXCEPT ![id] = row]
               /\ feed' = Publish(<<SessionEvent("UPDATE", row)>>)
               /\ tasks' = Continue(c, i, [tasks[c][i] EXCEPT
                                             !.pc = "es_expire"])
       ELSE /\ tasks' = Finish(c, i)
            /\ UNCHANGED <<session_logs, feed>>
  /\ UNCHANGED <<permission_requests, case_diary, local, setup, now, calls>>

\* UPDATE permission_requests SET status = 'expired'
\*   WHERE session_id = sid AND status = 'pending'
\* the bulk expire without its filters on session and status
ExpirePending_everyRow(rows, sid) ==
  [k \in DOMAIN rows |-> [rows[k] EXCEPT !.status = "expired"]]

ExpirePending(rows, sid) ==
  [k \in DOMAIN rows |->
     IF rows[k].session_id = sid /\ rows[k].status = "pending"
       THEN [rows[k] EXCEPT !.status = "expired"]
       ELSE rows[k]]

\* the rows of new that differ from old, as UPDATE events in id order
RECURSIVE UpdateEvents(_, _, _)
UpdateEvents(old, new, k) ==
  IF k > Len(new) THEN <<>>
  ELSE (IF old[k] # new[k] THEN <<PermissionEvent("UPDATE", new[k])>>
        ELSE <<>>) \o UpdateEvents(old, new, k + 1)

\* the store executes the bulk expire, or fails to; the answer is on its way
\* to the hook, which does not read its error
es_expire(c, i, ok) ==
  /\ Answer(c, i, "es_expire", ok)
  /\ LET new == IF ok THEN ExpirePending(permission_requests,
                                         tasks[c][i].session.id)
                ELSE permission_requests
         events == UpdateEvents(permission_requests, new, 1)
     IN /\ Room(Len(events))
        /\ permission_requests' = new
        /\ feed' = Publish(events)
        /\ tasks' = Continue(c, i, [tasks[c][i] EXCEPT
                                      !.pc = "es_log",
                                      !.expired = ok])
  /\ UNCHANGED <<session_logs, case_diary, local, setup, now, calls>>

\* endSession resumes after the bulk expire: it builds the diary entry, its
\* duration from Date.now() as it is read now, and sends the insert
es_log(c, i) ==
  /\ i \in DOMAIN tasks[c]
  /\ tasks[c][i].pc = "es_log"
  /\ tasks' = Continue(c, i, [tasks[c][i] EXCEPT !.pc = "es_diary",
                                                 !.t = now])
  /\ UNCHANGED <<store, local, setup, now, failures, calls, feed>>

\* the store executes the insert of SESSION_END into case_diary, or fails to;
\* the answer is on its way to the hook, which does not read its error
es_diary(c, i, ok) ==
  /\ Answer(c, i, "es_diary", ok)
  /\ case_diary' =
       IF ok THEN Append(case_diary,
                         DiaryEntry("SESSION_END", profile[c],
                                    tasks[c][i].session.id,
                                    DurationMinutes(
                                      tasks[c][i].t,
                                      tasks[c][i].session.started_at),
                                    OrNotes(tasks[c][i].notes, NoNotes)))
       ELSE case_diary
  /\ tasks' = Continue(c, i, [tasks[c][i] EXCEPT !.pc = "es_clear",
                                                 !.logged = ok])
  /\ UNCHANGED <<session_logs, permission_requests, local, setup, now, calls,
                 feed>>

\* endSession resumes after the diary insert: it clears the session and the
\* own permission and returns true
es_clear(c, i) ==
  /\ i \in DOMAIN tasks[c]
  /\ tasks[c][i].pc = "es_clear"
  /\ activeSession' = [activeSession EXCEPT ![c] = NoSession]
  /\ myPermission' = [myPermission EXCEPT ![c] = NoPermission]
  /\ tasks' = Finish(c, i)
  /\ UNCHANGED <<store, permissionRequests, setup, now, failures, calls,
                 feed>>

\* ------------------------------------------------------------ updateNotes
updateNotesResult(c) == IF activeSession[c].id = 0 THEN "rejected" ELSE "update"

updateNotes(c, notes) ==
  /\ Mounted(c)
  /\ IF updateNotesResult(c) = "update"
       THEN Start(c, Task("updateNotes", "un_update", activeSession[c], now,
                          notes, 0, FALSE))
       ELSE UNCHANGED vars

\* the store executes the update of the notes: on an error updateNotes
\* returns false; else the answer is on its way to the hook
un_update(c, i, ok) ==
  /\ Answer(c, i, "un_update", ok)
  /\ IF ok
       THEN LET id == tasks[c][i].session.id
                row == [session_logs[id] EXCEPT
                          !.notes = tasks[c][i].notes]
            IN /\ Room(1)
               /\ session_logs' = [session_logs EXCEPT ![id] = row]
               /\ feed' = Publish(<<SessionEvent("UPDATE", row)>>)
               /\ tasks' = Continue(c, i, [tasks[c][i] EXCEPT
                                             !.pc = "un_set"])
       ELSE /\ tasks' = Finish(c, i)
            /\ UNCHANGED <<session_logs, feed>>
  /\ UNCHANGED <<permission_requests, case_diary, local, setup, now, calls>>

\* updateNotes resumes after the update: it sets the notes on the session the
\* page shows by then, if any, and returns true
un_set(c, i) ==
  /\ i \in DOMAIN tasks[c]
  /\ tasks[c][i].pc = "un_set"
  /\ activeSession' =
       [activeSession EXCEPT ![c] =
          IF @.id # 0 THEN [@ EXCEPT !.notes = tasks[c][i].notes]
          ELSE NoSession]
  /\ tasks' = Finish(c, i)
  /\ UNCHANGED <<store, permissionRequests, myPermission, setup, now,
                 failures, calls, feed>>

\* ------------------------------------------------------ requestPermission
\* requestPermission() without its check of the loaded session
requestPermissionResult_anySession(c) ==
  IF FindExisting(permissionRequests[c], profile[c],
                  activeSession[c].id).id # 0 THEN "existing"
  ELSE "insert"

requestPermissionResult(c) ==
  IF activeSession[c].id = 0 \/ profile[c] = NoProfile THEN "no_session"
  ELSE IF FindExisting(permissionRequests[c], profile[c],
                       activeSession[c].id).id # 0 THEN "existing"
  ELSE "insert"

requestPermission(c) ==
  /\ Mounted(c)
  /\ IF requestPermissionResult(c) = "insert"
       THEN /\ Len(permission_requests) + InFlight("rp_insert")
                 < limits.requests
            /\ Start(c, Task("requestPermission", "rp_insert",
                             activeSession[c], now, NoNotes, 0, FALSE))
       ELSE UNCHANGED vars

\* the store executes the insert into permission_requests: on an error
\* requestPermission returns null; else the row is on its way to the hook
rp_insert(c, i, ok) ==
  /\ Answer(c, i, "rp_insert", ok)
  /\ IF ok
       THEN LET data == PermissionRequest(Len(permission_requests) + 1,
                                          tasks[c][i].session.id,
                                          profile[c], "pending",
                                          tasks[c][i].t, NoProfile)
            IN /\ Room(1)
               /\ permission_requests' = Append(permission_requests, data)
               /\ feed' = Publish(<<PermissionEvent("INSERT", data)>>)
               /\ tasks' = Continue(c, i, [tasks[c][i] EXCEPT
                                             !.pc = "rp_reload",
                                             !.rid = data.id])
       ELSE /\ tasks' = Finish(c, i)
            /\ UNCHANGED <<permission_requests, feed>>
  /\ UNCHANGED <<session_logs, case_diary, local, setup, now, calls>>

\* requestPermission resumes with the row and reloads the list of the session
\* it was called with
rp_reload(c, i) ==
  /\ i \in DOMAIN tasks[c]
  /\ tasks[c][i].pc = "rp_reload"
  /\ tasks' = Continue(c, i, Issue(c, tasks[c][i]))
  /\ UNCHANGED <<store, local, setup, now, failures, calls, feed>>

\* ---------------------------------------------------- respondToPermission
respondToPermissionResult(c) ==
  IF ~isJudge(c) \/ profile[c] = NoProfile THEN "unauthorized" ELSE "update"

respondToPermission(c, requestId, grant) ==
  /\ Mounted(c)
  /\ IF respondToPermissionResult(c) = "update"
       THEN Start(c, Task("respondToPermission", "rt_update", activeSession[c],
                          now, NoNotes, requestId, grant))
       ELSE UNCHANGED vars

\* UPDATE permission_requests SET status, responded_by WHERE id = id: the
\* rows after the update, which changes nothing when no row has the id
Respond(rows, id, grant, by) ==
  [k \in DOMAIN rows |->
     IF k = id
       THEN [rows[k] EXCEPT !.status = IF grant THEN "granted" ELSE "denied",
                            !.responded_by = by]
       ELSE rows[k]]

\* the store executes the update of the request: on an error
\* respondToPermission returns false; else the answer is on its way
rt_update(c, i, ok) ==
  /\ Answer(c, i, "rt_update", ok)
  /\ IF ok
       THEN LET id == tasks[c][i].rid
                new == Respond(permission_requests, id, tasks[c][i].grant,
                               profile[c])
                events == IF id \in DOMAIN new
                            THEN <<PermissionEvent("UPDATE", new[id])>>
                            ELSE <<>>
            IN /\ Room(Len(events))
               /\ permission_requests' = new
               /\ feed' = Publish(events)
               /\ tasks' = Continue(c, i, [tasks[c][i] EXCEPT
                                             !.pc = "rt_reload"])
       ELSE /\ tasks' = Finish(c, i)
            /\ UNCHANGED <<permission_requests, feed>>
  /\ UNCHANGED <<session_logs, case_diary, local, setup, now, calls>>

\* respondToPermission resumes after the update and reloads the list of the
\* session it was called with
rt_reload(c, i) ==
  /\ i \in DOMAIN tasks[c]
  /\ tasks[c][i].pc = "rt_reload"
  /\ tasks' = Continue(c, i, Issue(c, tasks[c][i]))
  /\ UNCHANGED <<store, local, setup, now, failures, calls, feed>>

\* ------------------------------------------------------- fetchPermissions
\* the rows of the case, of session sid if one is given
PermissionsOf(sid) ==
  {r \in Range(permission_requests) :
     r.case_id = CaseId /\ (sid # 0 => r.session_id = sid)}

\* the query of permission_requests answers: on an error nothing is set
fp_query(c, i, ok) ==
  /\ Answer(c, i, "fp_query", ok)
  /\ IF ok
       THEN \E data \in ByRequestedAtDesc(
                          PermissionsOf(tasks[c][i].session.id)) :
              tasks' = Continue(c, i, [tasks[c][i] EXCEPT
                                         !.pc = "fp_profiles",
                                         !.data = data])
       ELSE tasks' = FinishReload(c, i, FALSE)
  /\ UNCHANGED <<store, local, setup, now, calls, feed>>

\* the query of the requesters' names answers; its error is not read.  The
\* list and the own permission are set
fp_profiles(c, i, ok) ==
  /\ Answer(c, i, "fp_profiles", ok)
  /\ permissionRequests' = [permissionRequests EXCEPT ![c] = tasks[c][i].data]
  /\ myPermission' =
       IF profile[c] # NoProfile
         THEN [myPermission EXCEPT ![c] = FindMine(tasks[c][i].data, profile[c])]
         ELSE myPermission
  /\ tasks' = FinishReload(c, i, TRUE)
  /\ UNCHANGED <<store, activeSession, setup, now, calls, feed>>

\* ----------------------------------------------------------- fetchSession
\* the query of fetchSession without its order by started_at
NewestActive_unordered ==
  LET act == {r \in Range(session_logs) :
                r.case_id = CaseId /\ r.status = "active"}
  IN IF act = {} THEN {NoSession} ELSE act

\* the rows a query for the newest active session of the case may return
NewestActive ==
  LET act == {r \in Range(session_logs) :
                r.case_id = CaseId /\ r.status = "active"}
  IN IF act = {} THEN {NoSession}
     ELSE {r \in act : \A q \in act : r.started_at >= q.started_at}

\* fetchSession setting no session when its query fails
fs_query_clearing(c, i, ok) ==
  /\ Answer(c, i, "fs_query", ok)
  /\ IF ok
       THEN /\ \E data \in NewestActive :
                 tasks' = Continue(c, i, [tasks[c][i] EXCEPT
                                            !.pc = "fs_set",
                                            !.session = data])
            /\ UNCHANGED activeSession
       ELSE /\ tasks' = Finish(c, i)
            /\ activeSession' = [activeSession EXCEPT ![c] = NoSession]
  /\ UNCHANGED <<store, permissionRequests, myPermission, setup, now, calls,
                 feed>>

\* the store answers the query of fetchSession: on an error fetchSession
\* returns and nothing is set; else the row is on its way to the hook
fs_query(c, i, ok) ==
  /\ Answer(c, i, "fs_query", ok)
  /\ IF ok
       THEN \E data \in NewestActive :
              tasks' = Continue(c, i, [tasks[c][i] EXCEPT
                                         !.pc = "fs_set",
                                         !.session = data])
       ELSE tasks' = Finish(c, i)
  /\ UNCHANGED <<store, local, setup, now, calls, feed>>

\* fetchSession resumes with the row, or with none, and sets it; loadData goes
\* on to fetchPermissions when there is a session
fs_set(c, i) ==
  /\ i \in DOMAIN tasks[c]
  /\ tasks[c][i].pc = "fs_set"
  /\ LET data == tasks[c][i].session
     IN /\ activeSession' = [activeSession EXCEPT ![c] = data]
        /\ tasks' = IF data.id # 0 /\ tasks[c][i].op = "loadData"
                      THEN Continue(c, i, Issue(c, tasks[c][i]))
                      ELSE Finish(c, i)
  /\ UNCHANGED <<store, permissionRequests, myPermission, setup, now,
                 failures, calls, feed>>

\* ------------------------------------------------------- realtime handlers
\* the handler of the session_logs subscription
OnSessionEvent(c) ==
  /\ feed[c] # <<>>
  /\ Head(feed[c]).table = "session_logs"
  /\ LET session == Head(feed[c]).session
     IN IF session.status = "active"
          THEN /\ Len(tasks[c]) < limits.tasks
               /\ activeSession' = [activeSession EXCEPT ![c] = session]
               /\ tasks' = Spawn(c, Issue(c, Task("feed", "fp_query", session,
                                                  0, NoNotes, 0, FALSE)))
               /\ UNCHANGED myPermission
          ELSE IF session.status = "ended"
            THEN /\ activeSession' = [activeSession EXCEPT ![c] = NoSession]
                 /\ myPermission' = [myPermission EXCEPT ![c] = NoPermission]
                 /\ UNCHANGED tasks
            ELSE UNCHANGED <<activeSession, myPermission, tasks>>
  /\ feed' = [feed EXCEPT ![c] = Tail(@)]
  /\ UNCHANGED <<store, permissionRequests, setup, now, failures, calls>>

\* the channel delivers the INSERT event of session row k to Coordinator c
\* once more: the row as it was inserted
Redeliver(c, k) ==
  /\ Mounted(c)
  /\ k \in DOMAIN session_logs
  /\ Len(feed[c]) < limits.feed
  /\ feed' = [feed EXCEPT ![c] =
                Append(@, SessionEvent("INSERT",
                                       CourtSession(k, session_logs[k].judge_id,
                                                    "active",
                                                    session_logs[k].started_at,
                                                    NoTime, NoNotes)))]
  /\ UNCHANGED <<store, local, setup, now, failures, calls, tasks>>

\* the handler of the permission_requests subscription: it reloads the list
\* for the session its closure holds
OnPermissionEvent(c) ==
  /\ feed[c] # <<>>
  /\ Head(feed[c]).table = "permission_requests"
  /\ Len(tasks[c]) < limits.tasks
  /\ tasks' = Spawn(c, Issue(c, Task("feed", "fp_query",
                                     SessionRef(channel[c]), 0,
                                     NoNotes, Head(feed[c]).request.id,
                                     Head(feed[c]).request.status
                                       = "granted")))
  /\ feed' = [feed EXCEPT ![c] = Tail(@)]
  /\ UNCHANGED <<store, local, setup, now, failures, calls>>

\* the subscription effect runs again after activeSession?.id has changed: the
\* channel is removed and a new one subscribed, whose handlers hold the new
\* id.  Of the events on their way the oldest were sent to the removed channel
\* or committed before the new one was joined, and are not delivered: the new
\* channel delivers the last kept of them, which may be all or none.  The
\* renewals at which events are missed are counted as far as limits says
Resubscribe(c) ==
  /\ Mounted(c)
  /\ channel[c] # activeSession[c].id
  /\ channel' = [channel EXCEPT ![c] = activeSession[c].id]
  /\ \E kept \in 0..Len(feed[c]) :
       /\ feed' = [feed EXCEPT ![c] = SubSeq(@, Len(@) - kept + 1, Len(@))]
       /\ calls' = IF /\ kept < Len(feed[c])
                      /\ calls["ResubscribeMissing"]
                           < limits["ResubscribeMissing"]
                     THEN [calls EXCEPT !["ResubscribeMissing"] = @ + 1]
                     ELSE calls
  /\ UNCHANGED <<store, local, limits, profile, now, failures, tasks>>

\* ------------------------------------------- what else the hook exports
\* refreshSession is fetchSession itself: the view loads the session again,
\* without the reload of the list that loadData adds
refreshSession(c) ==
  /\ Mounted(c)
  /\ Start(c, Task("refreshSession", "fs_query", NoSession, now, NoNotes, 0,
                   FALSE))

\* refreshPermissions reloads the list for the session of the render it was
\* created in
refreshPermissions(c) ==
  /\ Mounted(c)
  /\ Start(c, Issue(c, Task("refreshPermissions", "fp_query",
                            SessionRef(activeSession[c].id), now, NoNotes, 0,
                            FALSE)))

\* --------------------------------------------------- the judiciary dashboard
\* the dashboard lists the pending requests of every case and is rendered for
\* a judge; its two handlers update the request of the id they are given,
\* whatever its status has become and whoever its session belongs to
handlePermission(c, requestId, grant) ==
  /\ Mounted(c) /\ isJudge(c) /\ profile[c] # NoProfile
  /\ requestId \in DOMAIN permission_requests
  /\ calls["handlePermission"] < limits["handlePermission"]
  /\ calls' = [calls EXCEPT !["handlePermission"] = @ + 1]
  /\ LET new == Respond(permission_requests, requestId, grant, profile[c])
     IN /\ Room(1)
        /\ permission_requests' = new
        /\ feed' = Publish(<<PermissionEvent("UPDATE", new[requestId])>>)
  /\ UNCHANGED <<session_logs, case_diary, local, setup, now, failures, tasks>>

handleGrantPermission(c, requestId) == handlePermission(c, requestId, TRUE)

handleDenyPermission(c, requestId) == handlePermission(c, requestId, FALSE)

\* ----------------------------------------------------------- sealEvidence
\* the last step of sealing a piece of evidence: an EVIDENCE_SEALED entry in
\* the diary of the case, in the name of the signed-in user of any role
sealEvidence(c) ==
  /\ Mounted(c) /\ profile[c] # NoProfile
  /\ calls["sealEvidence"] < limits["sealEvidence"]
  /\ calls' = [calls EXCEPT !["sealEvidence"] = @ + 1]
  /\ case_diary' = Append(case_diary,
                          DiaryEntry("EVIDENCE_SEALED", profile[c], 0, 0,
                                     NoNotes))
  /\ UNCHANGED <<session_logs, permission_requests, local, setup, now,
                 failures, tasks, feed>>

\* ------------------------------------------------------------------- Next
Step(c, i, ok) ==
  \/ ss_insert(c, i, ok)
  \/ ss_diary(c, i, ok)
  \/ ss_set(c, i) /\ ok
  \/ es_update(c, i, ok)
  \/ es_expire(c, i, ok)
  \/ es_log(c, i) /\ ok
  \/ es_diary(c, i, ok)
  \/ es_clear(c, i) /\ ok
  \/ un_update(c, i, ok)
  \/ un_set(c, i) /\ ok
  \/ rp_insert(c, i, ok)
  \/ rp_reload(c, i) /\ ok
  \/ rt_update(c, i, ok)
  \/ rt_reload(c, i) /\ ok
  \/ fp_query(c, i, ok)
  \/ fp_profiles(c, i, ok)
  \/ fs_query(c, i, ok)
  \/ fs_set(c, i) /\ ok

\* the operations by the part of the hook they belong to
Starting ==
  \/ \E c \in Coordinators : startSession(c)
  \/ \E c \in Coordinators, i \in Slots, ok \in BOOLEAN : ss_insert(c, i, ok)
  \/ \E c \in Coordinators, i \in Slots, ok \in BOOLEAN : ss_diary(c, i, ok)
  \/ \E c \in Coordinators, i \in Slots : ss_set(c, i)

Ending ==
  \/ \E c \in Coordinators, notes \in EndNotes : endSession(c, notes)
  \/ \E c \in Coordinators, i \in Slots, ok \in BOOLEAN : es_update(c, i, ok)
  \/ \E c \in Coordinators, i \in Slots, ok \in BOOLEAN : es_expire(c, i, ok)
  \/ \E c \in Coordinators, i \in Slots : es_log(c, i)
  \/ \E c \in Coordinators, i \in Slots, ok \in BOOLEAN : es_diary(c, i, ok)
  \/ \E c \in Coordinators, i \in Slots : es_clear(c, i)

Noting ==
  \/ \E c \in Coordinators, notes \in Notes : updateNotes(c, notes)
  \/ \E c \in Coordinators, i \in Slots, ok \in BOOLEAN : un_update(c, i, ok)
  \/ \E c \in Coordinators, i \in Slots : un_set(c, i)

Requesting ==
  \/ \E c \in Coordinators : requestPermission(c)
  \/ \E c \in Coordinators, i \in Slots, ok \in BOOLEAN : rp_insert(c, i, ok)
  \/ \E c \in Coordinators, i \in Slots : rp_reload(c, i)

\* the view passes respondToPermission the id of a request, in its list or not:
\* any id that a row of the specification may have
Responding ==
  \/ \E c \in Coordinators, requestId \in 1..limits.requests, grant \in BOOLEAN :
       respondToPermission(c, requestId, grant)
  \/ \E c \in Coordinators, i \in Slots, ok \in BOOLEAN : rt_update(c, i, ok)
  \/ \E c \in Coordinators, i \in Slots : rt_reload(c, i)

\* the reads and the renewal of the subscription, which follow from the
\* operations and are never called by a user
Reading ==
  \/ \E c \in Coordinators, i \in Slots, ok \in BOOLEAN : fs_query(c, i, ok)
  \/ \E c \in Coordinators, i \in Slots : fs_set(c, i)
  \/ \E c \in Coordinators, i \in Slots, ok \in BOOLEAN : fp_query(c, i, ok)
  \/ \E c \in Coordinators, i \in Slots, ok \in BOOLEAN :
       fp_profiles(c, i, ok)
  \/ \E c \in Coordinators : Resubscribe(c)

Next ==
  \/ Starting
  \/ Ending
  \/ Noting
  \/ Requesting
  \/ Responding
  \/ \E c \in Coordinators : OnSessionEvent(c)
  \/ \E c \in Coordinators : OnPermissionEvent(c)
  \/ Reading

Spec == Init /\ [][Next]_vars
SpecSolo == InitSolo /\ [][Next]_vars
SpecStored == InitStored /\ [][Next]_vars

NextTimed == Tick \/ Next

SpecTimed == InitTimed /\ [][NextTimed]_vars

\* the sessions alone: judges start and end them, nobody asks for an upload
NextSessions ==
  \/ Starting
  \/ Ending
  \/ \E c \in Coordinators : OnSessionEvent(c)
  \/ Reading

SpecJudges == InitJudges /\ [][NextSessions]_vars
SpecTwoEnds == InitTwoEnds /\ [][NextSessions]_vars
SpecTwice == InitTwice /\ [][NextSessions]_vars

\* the requests alone, of users who open a case in session
NextRequests ==
  \/ Requesting
  \/ \E c \in Coordinators : OnPermissionEvent(c)
  \/ Reading

SpecTabs == InitTabs /\ [][NextRequests]_vars
SpecAsking == InitAsking /\ [][NextRequests]_vars

\* everything but the notes
NextUnnoted ==
  \/ Starting
  \/ Ending
  \/ Requesting
  \/ Responding
  \/ \E c \in Coordinators : OnSessionEvent(c)
  \/ \E c \in Coordinators : OnPermissionEvent(c)
  \/ Reading

SpecAgain == InitAgain /\ [][NextUnnoted]_vars
SpecFail == InitFail /\ [][NextUnnoted]_vars
SpecQueued == InitQueued /\ [][NextUnnoted]_vars

\* the same, and the sealing of evidence, which writes to the diary of the case
NextSealed ==
  \/ NextUnnoted
  \/ \E c \in Coordinators : sealEvidence(c)

SpecSealed == InitSealed /\ [][NextSealed]_vars

\* a session that is there already: it is ended, uploads are asked for and
\* answered
NextSession ==
  \/ Ending
  \/ Requesting
  \/ Responding
  \/ \E c \in Coordinators : OnSessionEvent(c)
  \/ \E c \in Coordinators : OnPermissionEvent(c)
  \/ Reading

\* a session and a request that are there already: notes are taken, uploads
\* asked for and answered
NextOverlap ==
  \/ Noting
  \/ Requesting
  \/ Responding
  \/ \E c \in Coordinators : OnSessionEvent(c)
  \/ \E c \in Coordinators : OnPermissionEvent(c)
  \/ Reading

SpecOverlap == InitOverlap /\ [][NextOverlap]_vars

\* a request is answered on the page of the case or on the dashboard
NextDashboard ==
  \/ Responding
  \/ \E c \in Coordinators : OnPermissionEvent(c)
  \/ Reading
  \/ \E c \in Coordinators, requestId \in RequestIds :
       handleGrantPermission(c, requestId)
  \/ \E c \in Coordinators, requestId \in RequestIds :
       handleDenyPermission(c, requestId)

SpecDashboard == InitDashboard /\ [][NextDashboard]_vars

\* the views also reload the session and the list on their own
NextRefreshed ==
  \/ Next
  \/ \E c \in Coordinators : refreshSession(c)
  \/ \E c \in Coordinators : refreshPermissions(c)

SpecRefreshed == InitRefreshed /\ [][NextRefreshed]_vars

\* events of the session_logs feed may also come again
NextRedelivered ==
  \/ Next
  \/ \E c \in Coordinators, k \in SessionIds : Redeliver(c, k)

SpecRedelivered == InitRedelivered /\ [][NextRedelivered]_vars

\* two pages that have loaded the session: notes are taken and the request is
\* answered, and the lists are reloaded on the events of both
NextLoaded ==
  \/ Noting
  \/ Responding
  \/ \E c \in Coordinators : OnSessionEvent(c)
  \/ \E c \in Coordinators : OnPermissionEvent(c)
  \/ \E c \in Coordinators, i \in Slots, ok \in BOOLEAN : fp_query(c, i, ok)
  \/ \E c \in Coordinators, i \in Slots, ok \in BOOLEAN :
       fp_profiles(c, i, ok)

SpecLoaded == InitLoaded /\ [][NextLoaded]_vars

\* ======================================================================
\* Claims
\* ======================================================================
UserOps(c) == {tasks[c][i].op : i \in DOMAIN tasks[c]}

\* the entries the hook writes to the diary
SessionEntries ==
  {k \in DOMAIN case_diary :
     case_diary[k].action \in {"SESSION_START", "SESSION_END"}}

\* C3: startSession, endSession and respondToPermission of a Coordinator whose
\* user is not of the judiciary are rejected in every state: none of them is
\* ever in flight there, and no session row, no diary entry of a session and
\* no response in the store comes from such a user.
C3_JudgeExclusivity ==
  /\ \A c \in Coordinators :
       (Mounted(c) /\ ~isJudge(c)) =>
         /\ startSessionResult(c) = "unauthorized"
         /\ endSessionResult(c) = "rejected"
         /\ respondToPermissionResult(c) = "unauthorized"
         /\ UserOps(c) \cap {"startSession", "endSession",
                             "respondToPermission"} = {}
  /\ \A k \in DOMAIN session_logs :
       role_category(session_logs[k].judge_id) = "judiciary"
  /\ \A k \in SessionEntries :
       role_category(case_diary[k].actor_id) = "judiciary"
  /\ \A k \in DOMAIN permission_requests :
       permission_requests[k].responded_by # NoProfile =>
         role_category(permission_requests[k].responded_by) = "judiciary"

\* a practitioner's Coordinator with a session loaded and a request listed,
\* where each of the three operations can be invoked; the practitioner has
\* sealed evidence, so that the diary holds an entry of theirs
C3_Witness ==
  \E c \in Coordinators :
    /\ Mounted(c) /\ ~isJudge(c)
    /\ activeSession[c].id # 0
    /\ Len(permissionRequests[c]) > 0
    /\ session_logs[activeSession[c].id].status = "active"
    /\ \E k \in DOMAIN case_diary : case_diary[k].actor_id = profile[c]

\* ----------------------------------------------------------------- C1
StartedBy(c) ==
  {k \in DOMAIN session_logs :
     /\ session_logs[k].judge_id = profile[c]
     /\ session_logs[k].status = "active"
     /\ \A i \in DOMAIN tasks[c] :
          ~(/\ tasks[c][i].pc \in {"ss_diary", "ss_set"}
            /\ tasks[c][i].session.id = k)}

\* C1: a judge's Coordinator whose startSession() has succeeded, with no
\* endSession() called on that session since (the row it inserted is still
\* active and no endSession is in flight), rejects startSession() as
\* 'A session is already active'.
C1_SecondStartRejected ==
  \A c \in Coordinators :
    (/\ Mounted(c) /\ isJudge(c)
     /\ StartedBy(c) # {}
     /\ "endSession" \notin UserOps(c))
    => startSessionResult(c) = "already_active"

\* ----------------------------------------------------------------- C2
RowsOfPair(sid, p) ==
  {k \in DOMAIN permission_requests :
     /\ permission_requests[k].session_id = sid
     /\ permission_requests[k].requester_id = p}

\* C2: when a requester's requestPermission() that inserted a request has
\* completed, its reload of the list included, the session still active and
\* loaded and the request still pending or granted, the next
\* requestPermission() returns that existing request and inserts nothing, so
\* that the store keeps exactly one request of the session and requester.
C2_IdempotentRequest ==
  [][\A c \in Coordinators : \A i \in DOMAIN tasks[c] :
       LET tk == tasks[c][i]
       IN (/\ \/ fp_query(c, i, FALSE)
              \/ \E ok \in BOOLEAN : fp_profiles(c, i, ok)
           /\ tk.op = "requestPermission"
           /\ ~isJudge(c)
           /\ activeSession'[c].id = tk.session.id
           /\ session_logs[tk.session.id].status = "active"
           /\ permission_requests[tk.rid].status \in {"pending", "granted"})
          => /\ requestPermissionResult(c)' = "existing"
             /\ LET e == FindExisting(permissionRequests'[c], profile[c],
                                      activeSession'[c].id)
                IN /\ e.status \in {"pending", "granted"}
                   /\ e.session_id = tk.session.id
                   /\ e.requester_id = profile[c]
                   /\ RowsOfPair(tk.session.id, profile[c]) = {e.id}]_vars

\* ----------------------------------------------------------------- C4
EndEntries(diary, sid) ==
  {k \in DOMAIN diary :
     diary[k].action = "SESSION_END" /\ diary[k].session_id = sid}

\* C4: when endSession() returns true, the requests of the session that
\* existed when it was called are none of them pending, the session row is
\* ended with an ended_at, and there is exactly one SESSION_END entry for the
\* session, whose duration_minutes is round((ended_at - started_at) / 60000)
\* for the ended_at of the row.
C4_EndSessionCascade ==
  [][\A c \in Coordinators : \A i \in DOMAIN tasks[c] :
       LET tk == tasks[c][i]
           sid == tk.session.id
       IN es_clear(c, i) =>
            /\ \A k \in 1..tk.rid :
                 permission_requests'[k].session_id = sid
                   => permission_requests'[k].status # "pending"
            /\ session_logs'[sid].status = "ended"
            /\ session_logs'[sid].ended_at # NoTime
            /\ Cardinality(EndEntries(case_diary', sid)) = 1
            /\ \A k \in EndEntries(case_diary', sid) :
                 case_diary'[k].duration_minutes =
                   DurationMinutes(session_logs'[sid].ended_at,
                                   session_logs'[sid].started_at)]_vars

\* ----------------------------------------------------------------- C5
HoldsGrant(c) ==
  /\ activeSession[c].id # 0
  /\ \E k \in DOMAIN permissionRequests[c] :
       /\ permissionRequests[c][k].requester_id = profile[c]
       /\ permissionRequests[c][k].status = "granted"
       /\ permissionRequests[c][k].session_id = activeSession[c].id

\* C5: in every state canUpload is true exactly when the user is a judge or
\* holds a granted request of the session that is loaded.
C5_CanUploadIff ==
  \A c \in Coordinators :
    Mounted(c) => (canUpload(c) <=> (isJudge(c) \/ HoldsGrant(c)))

\* ----------------------------------------------------------------- C6
\* C6: for a user who is not a judge, canUpload, once false with no session
\* loaded (as the 'ended' event leaves it), stays false for as long as no
\* session is loaded.
C6_StaysFalseAfterEnd ==
  [][\A c \in Coordinators :
       (/\ Mounted(c) /\ ~isJudge(c)
        /\ activeSession[c].id = 0 /\ ~canUpload(c)
        /\ activeSession'[c].id = 0)
       => ~canUpload(c)']_vars

\* ----------------------------------------------------------------- C7
LiveRows(c) ==
  {k \in DOMAIN permission_requests :
     /\ permission_requests[k].requester_id = profile[c]
     /\ permission_requests[k].session_id = activeSession[c].id
     /\ permission_requests[k].status \in {"pending", "granted"}}

\* a requester with the session loaded whose one request of that session has
\* been granted by somebody else
Granted(c) ==
  /\ Mounted(c) /\ ~isJudge(c)
  /\ activeSession[c].id # 0
  /\ Cardinality(LiveRows(c)) = 1
  /\ \A k \in LiveRows(c) :
       /\ permission_requests[k].status = "granted"
       /\ permission_requests[k].responded_by # profile[c]

\* C7: a requester's Coordinator that has the session loaded which a judge's
\* Coordinator has loaded too, whose request of that session somebody else
\* has granted, to which every event has been delivered (none is on its way
\* and none has been missed) and whose reloads have all completed, has
\* canUpload true.
C7_RealtimeConvergence ==
  \A c \in Coordinators :
    (/\ Granted(c)
     /\ \E a \in Coordinators :
          isJudge(a) /\ activeSession[a].id = activeSession[c].id
     /\ feed[c] = <<>>
     /\ calls["ResubscribeMissing"] = 0
     /\ tasks[c] = <<>>)
    => canUpload(c)

\* ----------------------------------------------------------------- C8
PrimaryWrites == {"ss_insert", "es_update", "un_update", "rp_insert",
                  "rt_update"}

\* C8: an operation whose write fails leaves the Coordinator's state as it was
\* and returns null or false; endSession reaches its successful return, where
\* the state advances, only if its bulk expire has succeeded too.
C8_AllOrNothing ==
  [][\A c \in Coordinators : \A i \in DOMAIN tasks[c] :
       LET tk == tasks[c][i]
       IN /\ (tk.pc \in PrimaryWrites /\ Step(c, i, FALSE))
               => /\ UNCHANGED local
                  /\ returns(tk.op, tk.pc, FALSE) \in {"null", "false"}
          /\ es_clear(c, i) => tk.expired]_vars

\* ----------------------------------------------------------------- C9
\* task i of Coordinator c goes on to pc
GoesOn(c, i, pc) ==
  /\ Len(tasks'[c]) = Len(tasks[c])
  /\ tasks'[c][i].pc = pc

\* C9: when the insert into case_diary fails, the operation goes on all the
\* same: startSession still sets the session it inserted and returns it,
\* endSession still clears the session and the own permission and returns
\* true, and the session row stays as it was written.
C9_DiaryBestEffort ==
  [][\A c \in Coordinators : \A i \in DOMAIN tasks[c] :
       LET tk == tasks[c][i]
       IN /\ ss_diary(c, i, FALSE)
               => /\ GoesOn(c, i, "ss_set")
                  /\ UNCHANGED <<session_logs, permission_requests>>
          /\ (ss_set(c, i) /\ ~tk.logged)
               => /\ activeSession'[c] = tk.session
                  /\ returns(tk.op, tk.pc, TRUE) = "session"
                  /\ UNCHANGED store
          /\ es_diary(c, i, FALSE)
               => /\ GoesOn(c, i, "es_clear")
                  /\ UNCHANGED <<session_logs, permission_requests>>
          /\ (es_clear(c, i) /\ ~tk.logged)
               => /\ activeSession'[c] = NoSession
                  /\ myPermission'[c] = NoPermission
                  /\ returns(tk.op, tk.pc, TRUE) = "true"
                  /\ UNCHANGED store]_vars

\* the insert of SESSION_START has failed (no entry, none in flight), and the
\* judge's Coordinator holds the session all the same
C9_Witness ==
  /\ failures = 1
  /\ Len(session_logs) = 1
  /\ case_diary = <<>>
  /\ \A c \in Coordinators : \A i \in DOMAIN tasks[c] :
       tasks[c][i].pc \notin {"ss_diary", "ss_set"}
  /\ \E c \in Coordinators :
       /\ isJudge(c)
       /\ activeSession[c] = session_logs[1]
       /\ session_logs[1].status = "active"
       /\ feed[c] # <<>> /\ Head(feed[c]).session.id = 1
       /\ Head(feed[c]).eventType = "INSERT"

\* ---------------------------------------------------------------- C10
ActiveRows == {k \in DOMAIN session_logs : session_logs[k].status = "active"}

\* C10: the store never holds two session rows of the case with status active.
C10_AtMostOneActive == Cardinality(ActiveRows) <= 1

\* ---------------------------------------------------------------- C11
LivePairs ==
  {<<a, b>> \in (DOMAIN permission_requests) \X (DOMAIN permission_requests) :
     /\ a < b
     /\ permission_requests[a].session_id = permission_requests[b].session_id
     /\ permission_requests[a].requester_id
          = permission_requests[b].requester_id
     /\ permission_requests[a].status \in {"pending", "granted"}
     /\ permission_requests[b].status \in {"pending", "granted"}}

\* C11: the store never holds two pending or granted requests of the same
\* session and requester.
C11_AtMostOneLive == LivePairs = {}

\* ---------------------------------------------------------------- C12
\* C12: whenever the status of a request row changes, it changes from pending,
\* to granted, denied or expired.
C12_StatusTerminal ==
  [][\A k \in DOMAIN permission_requests :
       permission_requests'[k].status # permission_requests[k].status
         => /\ permission_requests[k].status = "pending"
            /\ permission_requests'[k].status
                 \in {"granted", "denied", "expired"}]_vars

\* ---------------------------------------------------------------- C13
\* C13: the status or ended_at of a session row changes only when the row is
\* active and has no ended_at, and then to ended; and the update of endSession
\* is only ever applied to a row that is active in the store.
C13_EndedIsTerminal ==
  [][/\ \A k \in DOMAIN session_logs :
          (\/ session_logs'[k].status # session_logs[k].status
           \/ session_logs'[k].ended_at # session_logs[k].ended_at)
          => /\ session_logs[k].status = "active"
             /\ session_logs[k].ended_at = NoTime
             /\ session_logs'[k].status = "ended"
     /\ \A c \in Coordinators : \A i \in DOMAIN tasks[c] :
          es_update(c, i, TRUE)
            => session_logs[tasks[c][i].session.id].status = "active"]_vars

\* ---------------------------------------------------------------- C14
\* C14: a Coordinator whose loaded session belongs to another judge rejects
\* endSession, and no endSession is in flight on a session of another judge.
C14_OwningJudgeOnly ==
  \A c \in Coordinators :
    Mounted(c) =>
      /\ (activeSession[c].id # 0 /\ activeSession[c].judge_id # profile[c])
           => endSessionResult(c) = "rejected"
      /\ \A i \in DOMAIN tasks[c] :
           tasks[c][i].op = "endSession"
             => tasks[c][i].session.judge_id = profile[c]

\* ---------------------------------------------------------------- C15
FirstByOwner(c, requestId) ==
  LET row == permission_requests[requestId]
  IN /\ profile[c] = session_logs[row.session_id].judge_id
     /\ row.status = "pending"
     /\ row.responded_by = NoProfile

\* C15: whenever the update of respondToPermission or of the dashboard's grant
\* or deny is applied to a request, the responding user is the judge of the
\* request's session, and the request is pending and has not been responded
\* to before.
C15_RespondedByOwner ==
  [][\A c \in Coordinators :
       /\ \A i \in DOMAIN tasks[c] :
            (rt_update(c, i, TRUE)
               /\ tasks[c][i].rid \in DOMAIN permission_requests)
              => FirstByOwner(c, tasks[c][i].rid)
       /\ \A k \in DOMAIN permission_requests : \A grant \in BOOLEAN :
            handlePermission(c, k, grant) => FirstByOwner(c, k)]_vars

\* ---------------------------------------------------------------- C16
\* C16: requestPermission of a judge's Coordinator never goes on to insert,
\* and no request row has a judge as its requester.
C16_JudgeNeverRequests ==
  /\ \A c \in Coordinators :
       (Mounted(c) /\ isJudge(c)) =>
         /\ requestPermissionResult(c) # "insert"
         /\ "requestPermission" \notin UserOps(c)
  /\ \A k \in DOMAIN permission_requests :
       role_category(permission_requests[k].requester_id) # "judiciary"

\* ---------------------------------------------------------------- C17
Idle == \A c \in Coordinators : tasks[c] = <<>>

\* C17: the insert of a requestPermission by a user who is not a judge is
\* only ever applied while the session of the request is active in the store;
\* and when no operation is in flight, no request of such a user for an ended
\* session is pending.
C17_InsertedWhileActive ==
  /\ [][\A c \in Coordinators : \A i \in DOMAIN tasks[c] :
          (rp_insert(c, i, TRUE) /\ ~isJudge(c))
            => session_logs[tasks[c][i].session.id].status = "active"]_vars
  /\ [](Idle =>
          \A k \in DOMAIN permission_requests :
            (/\ permission_requests[k].status = "pending"
             /\ role_category(permission_requests[k].requester_id)
                  # "judiciary")
              => session_logs[permission_requests[k].session_id].status
                   = "active")

\* ---------------------------------------------------------------- C18
\* C18: on a Coordinator with no session loaded, a call of endSession,
\* requestPermission or updateNotes changes nothing: no operation starts, the
\* store and the Coordinator's state stay as they are.
C18_NoSessionNoWrite ==
  [][\A c \in Coordinators :
       (/\ Mounted(c)
        /\ activeSession[c].id = 0
        /\ \/ \E notes \in EndNotes : endSession(c, notes)
           \/ \E notes \in Notes : updateNotes(c, notes)
           \/ requestPermission(c))
       => /\ endSessionResult(c) = "rejected"
          /\ updateNotesResult(c) = "rejected"
          /\ requestPermissionResult(c) = "no_session"
          /\ UNCHANGED vars]_vars

\* an idle Coordinator with no session loaded while the store holds an active
\* session and a request could still be inserted
C18_Witness ==
  \E c \in Coordinators :
    /\ Mounted(c) /\ tasks[c] = <<>>
    /\ activeSession[c].id = 0
    /\ ActiveRows # {}
    /\ Len(permission_requests) < limits.requests
    /\ calls["updateNotes"] < limits.updateNotes
    /\ calls["endSession"] < limits.endSession

\* ---------------------------------------------------------------- C19
\* C19: the bulk expire of endSession changes only rows of the ended session
\* whose status is pending, and sets them to expired: granted and denied rows
\* of that session and every row of another session stay as they are.
C19_ExpireOnlyPending ==
  [][\A c \in Coordinators : \A i \in TaskIds : \A ok \in BOOLEAN :
       es_expire(c, i, ok) =>
         \A k \in DOMAIN permission_requests :
           permission_requests'[k] # permission_requests[k] =>
             /\ permission_requests[k].session_id = tasks[c][i].session.id
             /\ permission_requests[k].status = "pending"
             /\ permission_requests'[k] =
                  [permission_requests[k] EXCEPT !.status = "expired"]]_vars

\* the bulk expire of a session has answered while the store holds a granted
\* row of another session, requested by a practitioner
C19_Witness ==
  \E c \in Coordinators : \E i \in DOMAIN tasks[c] :
    /\ tasks[c][i].pc = "es_diary"
    /\ tasks[c][i].expired
    /\ \E k \in DOMAIN permission_requests :
         /\ permission_requests[k].session_id # tasks[c][i].session.id
         /\ permission_requests[k].status = "granted"
         /\ role_category(permission_requests[k].requester_id) # "judiciary"

\* ---------------------------------------------------------------- C20
\* C20: each view of a case renders the Upload Workspace for a user exactly
\* when the Coordinator's canUpload is true for that user.
C20_UploadOfferedIff ==
  \A c \in Coordinators :
    Mounted(c) =>
      /\ UploadWorkspace_CaseDetails(c) <=> canUpload(c)
      /\ UploadWorkspace_Sections(c) <=> canUpload(c)

\* ---------------------------------------------------------------- C21
\* C21: whenever the update of updateNotes changes the notes of a session row,
\* the caller is the judge of that row and the row is active in the store.
C21_NotesByOwnerWhileActive ==
  [][\A c \in Coordinators : \A i \in DOMAIN tasks[c] :
       LET id == tasks[c][i].session.id
       IN (un_update(c, i, TRUE)
           /\ session_logs'[id].notes # session_logs[id].notes)
          => /\ isJudge(c)
             /\ session_logs[id].judge_id = profile[c]
             /\ session_logs[id].status = "active"]_vars

\* ---------------------------------------------------------------- C22
\* notes ?? existing: the argument when one is supplied, else the existing
Supplied(notes, existing) == IF notes # NoNotes THEN notes ELSE existing

\* C22: an endSession that goes to the store carries the supplied notes when
\* notes are supplied, the empty string included, and the notes of the loaded
\* session when none are; its update stores exactly these notes in the row,
\* and its SESSION_END entry has them as notes_summary.
C22_EndNotesAsSupplied ==
  [][\A c \in Coordinators :
       /\ \A notes \in EndNotes :
            (endSession(c, notes) /\ endSessionResult(c) = "update")
              => tasks'[c][Len(tasks'[c])].notes
                   = Supplied(notes, activeSession[c].notes)
       /\ \A i \in DOMAIN tasks[c] :
            /\ es_update(c, i, TRUE)
                 => session_logs'[tasks[c][i].session.id].notes
                      = tasks[c][i].notes
            /\ es_diary(c, i, TRUE)
                 => case_diary'[Len(case_diary')].notes_summary
                      = tasks[c][i].notes]_vars

\* ---------------------------------------------------------------- C23
\* C23: when the reload started by a permission_requests event completes, every
\* request in the Coordinator's list belongs to the session that is loaded
\* (none when no session is loaded), and so does the own permission, if any.
\* Stated for stores whose requests all come from users who are not judges
\* and are pending only for an active session.
C23_ListOfLoadedSession ==
  [][\A c \in Coordinators : \A i \in DOMAIN tasks[c] :
       (/\ (\E ok \in BOOLEAN : fp_profiles(c, i, ok))
        /\ tasks[c][i].op = "feed"
        /\ tasks[c][i].rid # 0
        /\ \A k \in DOMAIN permission_requests :
             /\ role_category(permission_requests[k].requester_id)
                  # "judiciary"
             /\ permission_requests[k].status = "pending"
                  => session_logs[permission_requests[k].session_id].status
                       = "active")
       => /\ \A k \in DOMAIN permissionRequests'[c] :
               permissionRequests'[c][k].session_id = activeSession'[c].id
          /\ myPermission'[c].id # 0
               => myPermission'[c].session_id = activeSession'[c].id]_vars

\* ---------------------------------------------------------------- C24
\* s is a row of the store that is active and started no earlier than any
\* other active row
IsNewestActive(s) ==
  /\ s.id \in DOMAIN session_logs
  /\ session_logs[s.id] = s
  /\ s.status = "active"
  /\ \A k \in ActiveRows : session_logs[k].started_at <= s.started_at

RequestsOfSession(sid) ==
  {r \in Range(permission_requests) : r.session_id = sid}

\* nothing but the initial load of Coordinator c has run: no other operation
\* is in flight on c, no event is waiting for c, and the store holds no trace
\* of a call of c (no diary entry, no counted call, no request of c's user)
LoadAlone(c) ==
  /\ Len(tasks[c]) = 1
  /\ feed[c] = <<>>
  /\ case_diary = <<>>
  /\ calls = [op \in DOMAIN calls |-> 0]
  /\ \A r \in Range(permission_requests) : r.requester_id # profile[c]

\* C24: the initial load running alone, when its queries succeed, leaves no
\* session and an empty list if the store has no active session; otherwise
\* it leaves an
\* active row with the greatest started_at as the session, and as the list
\* exactly the requests of that session, each once.
C24_LoadsNewestActive ==
  [][\A c \in Coordinators : \A i \in DOMAIN tasks[c] :
       (tasks[c][i].op = "loadData" /\ LoadAlone(c)) =>
         /\ fs_set(c, i) =>
              IF ActiveRows = {}
                THEN /\ activeSession'[c] = NoSession
                     /\ permissionRequests'[c] = <<>>
                     /\ tasks'[c] = <<>>
                ELSE /\ IsNewestActive(activeSession'[c])
                     /\ tasks'[c] # <<>>
         /\ (\E ok \in BOOLEAN : fp_profiles(c, i, ok)) =>
              /\ IsNewestActive(activeSession'[c])
              /\ Range(permissionRequests'[c])
                   = RequestsOfSession(activeSession'[c].id)
              /\ Len(permissionRequests'[c])
                   = Cardinality(RequestsOfSession(activeSession'[c].id))
              /\ tasks'[c] = <<>>]_vars

\* the load is complete on a store with two active sessions started at
\* different times and a request for each: the later one is loaded, with its
\* request alone
C24_Witness ==
  \E c \in Coordinators :
    /\ Mounted(c) /\ tasks[c] = <<>>
    /\ calls = [op \in DOMAIN calls |-> 0]
    /\ Cardinality(ActiveRows) = 2
    /\ \E k \in ActiveRows :
         /\ activeSession[c] = session_logs[k]
         /\ \A j \in ActiveRows \ {k} :
              session_logs[j].started_at < session_logs[k].started_at
         /\ Len(permissionRequests[c]) = 1
         /\ permissionRequests[c][1].session_id = k
         /\ Len(permission_requests) = 2
         /\ \E r \in DOMAIN permission_requests :
              permission_requests[r].session_id # k

\* ---------------------------------------------------------------- C25
\* C25: a session event with status ended clears the session and the own
\* permission of a Coordinator whose loaded session is the session of the
\* event, and leaves both as they are when another session is loaded.
C25_EndedOfLoadedSession ==
  [][\A c \in Coordinators :
       (/\ OnSessionEvent(c)
        /\ Head(feed[c]).session.status = "ended"
        /\ activeSession[c].id # 0)
       => IF Head(feed[c]).session.id = activeSession[c].id
            THEN /\ activeSession'[c] = NoSession
                 /\ myPermission'[c] = NoPermission
            ELSE /\ activeSession'[c] = activeSession[c]
                 /\ myPermission'[c] = myPermission[c]]_vars

\* ---------------------------------------------------------------- C26
\* no event is waiting in any feed and no operation is in flight
Quiet == Idle /\ \A c \in Coordinators : feed[c] = <<>>

\* C26: with events that may be delivered again, whenever no event is
\* outstanding, none has been missed and no operation is in flight, a
\* Coordinator's current session, if it has one, is a row that is active in
\* the store.
C26_NoEndedSessionCurrent ==
  (Quiet /\ calls["ResubscribeMissing"] = 0) =>
    \A c \in Coordinators :
      activeSession[c].id # 0
        => session_logs[activeSession[c].id].status = "active"

\* ---------------------------------------------------------------- C27
\* C27: the diary never holds two SESSION_END entries of the same session.
C27_OneEndEntry ==
  \A sid \in DOMAIN session_logs :
    Cardinality(EndEntries(case_diary, sid)) <= 1

\* ---------------------------------------------------------------- C28
\* C28: a reload that completes after a reload issued later has set its
\* result leaves the list and the own permission as that later reload set
\* them.  Stated for reloads of the session that is loaded, when the list
\* agrees with the store, on stores with at most one active session whose
\* requests all come from users who are not judges.
C28_NewestReloadWins ==
  [][\A c \in Coordinators : \A i \in DOMAIN tasks[c] :
       (/\ (\E ok \in BOOLEAN : fp_profiles(c, i, ok))
        /\ tasks[c][i].overtaken
        /\ tasks[c][i].session.id = activeSession[c].id
        /\ Cardinality(ActiveRows) <= 1
        /\ Range(permissionRequests[c])
             = RequestsOfSession(activeSession[c].id)
        /\ \A k \in DOMAIN permission_requests :
             role_category(permission_requests[k].requester_id) # "judiciary")
         => /\ permissionRequests'[c] = permissionRequests[c]
            /\ myPermission'[c] = myPermission[c]]_vars

\* ---------------------------------------------------------------- C29
\* the startSession calls of Coordinator c in flight, other than task i, whose
\* insert has succeeded
Inserted(c, i) ==
  {j \in DOMAIN tasks[c] \ {i} :
     /\ tasks[c][j].op = "startSession"
     /\ tasks[c][j].pc \in {"ss_diary", "ss_set"}}

\* C29: of the startSession calls in flight on one Coordinator at the same
\* time, only one inserts a session row and only one inserts a SESSION_START
\* entry.
C29_OneInsertPerOverlap ==
  [][\A c \in Coordinators : \A i \in DOMAIN tasks[c] :
       /\ ss_insert(c, i, TRUE) => Inserted(c, i) = {}
       /\ ss_diary(c, i, TRUE) => Inserted(c, i) = {}]_vars

\* ---------------------------------------------------------------- C30
\* C30: when the query of fetchSession fails, the current session stays as it
\* was, and when the query of fetchPermissions fails, the list and the own
\* permission stay as they were; neither writes to the store.
C30_FailedReadKeepsState ==
  [][\A c \in Coordinators : \A i \in DOMAIN tasks[c] :
       /\ fs_query(c, i, FALSE)
            => /\ activeSession'[c] = activeSession[c]
               /\ UNCHANGED <<permissionRequests, myPermission, store>>
       /\ fp_query(c, i, FALSE)
            => /\ permissionRequests'[c] = permissionRequests[c]
               /\ myPermission'[c] = myPermission[c]
               /\ UNCHANGED <<activeSession, store>>]_vars

\* a Coordinator with a session, a list and an own permission loaded, whose
\* view has called refreshSession: the query is awaited and may fail
C30_Witness ==
  \E c \in Coordinators :
    /\ failures < limits.failures
    /\ activeSession[c].id # 0
    /\ permissionRequests[c] # <<>>
    /\ myPermission[c].id # 0
    /\ \E i \in DOMAIN tasks[c] :
         tasks[c][i].op = "refreshSession" /\ tasks[c][i].pc = "fs_query"

====
